---- MODULE Spec2Model ----
(***************************************************************************)
(* Model of the cpvae training pipeline of pyroclast:                      *)
(*   setup / learn / train / run_minibatch   (src/pyroclast/cpvae/cpvae.py) *)
(* together with the collaborators the loop drives and whose code is not   *)
(* part of the sources at hand (EarlyStopping, DDT, build_saveable_objects)*)
(* and which are therefore modelled from their written contract.           *)
(*                                                                         *)
(* A loss value is a rational <<numerator, denominator>>: train() divides  *)
(* float(loss_numerator) by float(loss_denominator).                       *)
(***************************************************************************)
EXTENDS Integers, Sequences, FiniteSets, TLC

(* ------------------------------ bounds --------------------------------- *)
MaxEpochs == 4          \* early_stopping.max_epochs ranges over 0 .. MaxEpochs
MaxPatience == 1        \* patience ranges over 0 .. MaxPatience
MaxPeriod == 2          \* tree_update_period ranges over 1 .. MaxPeriod
MaxLeaves == 2          \* a fitted tree has 1 .. MaxLeaves leaves
NumBatches == 2         \* minibatches per pass; the last one is the short one
MaxDriverCalls == 4     \* calls made by the stand-alone controller driver

(* ------------------------- program constants --------------------------- *)
EpsNum == 3             \* eps=0.03 given to EarlyStopping by learn
EpsDen == 100

(* ------------------------------ inputs --------------------------------- *)
LossValues == {96, 100}         \* per-example loss values a minibatch can see
DriverMetrics == {90, 98, 100}  \* metrics fed by the controller driver

VARIABLES
    cfg,               \* arguments of the run: caller, max_epochs, patience, ...
    pc,                \* position of the control flow
    epoch,             \* loop variable of train()
    batch,             \* minibatches already run in the current pass
    loss_numerator,    \* accumulator of train()
    loss_denominator,  \* accumulator of train()
    params,            \* number of gradient steps applied to the parameters
    es,                \* state of the EarlyStopping controller
    ckpt,              \* latest checkpoint written by ckpt_manager
    tree,              \* tree held by model.classifier
    prior,             \* model.prior
    disk_tree,         \* content of ddt.joblib
    fits,              \* number of trees fitted so far (names the next tree)
    error,             \* message of the exception that left setup/train, in
                       \* fragments; <<>> if none
    log,               \* steps of the current epoch already finished
    calls,             \* epochs given to early_stopping, in call order
    rets,              \* values returned by early_stopping, in call order
    bestEpoch,         \* epoch argument of the last improving call
    work,              \* counters of work done: minibatches, samples, refits
    refits,            \* epochs at whose end update_model_tree was invoked
    lastUpdate,        \* outcome of the last tree update step, and what it found
    seen,              \* (prior, tree) pairs observed so far in the current epoch
    dumped_at,         \* parameters the tree in ddt.joblib was fitted on
    hist,              \* features/prototype loop: metric and parameters per epoch
    pass,              \* one pass over a dataset, example by example
    vae,               \* a VAE of vae.py and the result of its forward_loss
    walk,              \* cpvae.walk: the fitted tree and the axis walks done
    proto              \* prototype.learn: variables and the last minibatch

vars == <<cfg, pc, epoch, batch, loss_numerator, loss_denominator, params, es,
          ckpt, tree, prior, disk_tree, fits, error, log, calls, rets,
          bestEpoch, work, refits, lastUpdate, seen, dumped_at, hist, pass,
          vae, walk, proto>>

\* state of the models that stand beside the cpvae run
aux == <<hist, pass, vae, walk, proto>>

(* ------------------------------ helpers -------------------------------- *)
Range(s) == {s[i] : i \in 1..Len(s)}

Last(s) == s[Len(s)]

IsPrefix(s, t) == Len(s) <= Len(t) /\ \A i \in 1..Len(s) : s[i] = t[i]

\* x.shape[0] of minibatch number i (1-based): full batches, then a short one
BatchSize(i) == IF i < NumBatches THEN 2 ELSE 1

RECURSIVE SumsOf(_)
\* the sums n per-example losses can have
SumsOf(n) == IF n = 0 THEN {0}
             ELSE {s + v : s \in SumsOf(n - 1), v \in LossValues}

(* ------------------- collaborators outside the sources ----------------- *)
NoTree == [gen |-> 0, leaves |-> 0]
NoCkpt == [epoch |-> -1, params |-> -1]

\* prior built by build_saveable_objects from prior_name, before any tree fit
InitialPrior == [kind |-> "initial", gen |-> 0, components |-> 1]

\* DDT.tree_distribution: one mixture component per leaf
TreeDistribution(t) == [kind |-> "mixture", gen |-> t.gen, components |-> t.leaves]

\* DDT.update_model_tree: a freshly fitted tree
FittedTree(g, k) == [gen |-> g, leaves |-> k]

NewEarlyStopping == [inf |-> TRUE, best |-> <<0, 1>>, steps |-> 0]

\* metric improved on best-so-far by more than eps, relative to best-so-far
Improved(e, m) ==
    \/ e.inf
    \/ (e.best[1] * m[2] - m[1] * e.best[2]) * EpsDen > EpsNum * e.best[1] * m[2]

ESUpdateMut(e, m) ==
    IF Improved(e, m) THEN [inf |-> FALSE, best |-> m, steps |-> e.steps]
    ELSE [e EXCEPT !.steps = e.steps + 1]

\* EarlyStopping.__call__, the state it leaves
ESUpdate(e, m) ==
    IF Improved(e, m) THEN [inf |-> FALSE, best |-> m, steps |-> 0]
    ELSE [e EXCEPT !.steps = e.steps + 1]

ESStopMut(e, ep, patience, max_epochs) ==
    e.steps >= patience \/ ep >= max_epochs - 1

\* EarlyStopping.__call__, the value it returns (e is the state it leaves)
ESStop(e, ep, patience, max_epochs) ==
    e.steps > patience \/ ep >= max_epochs - 1

\* ckpt_manager.save() inside EarlyStopping.__call__: only on an improvement
ESCheckpoint(e, m, ck, ep, p) ==
    IF Improved(e, m) THEN [epoch |-> ep, params |-> p] ELSE ck

(* ------------------------------ train() -------------------------------- *)
StepOrder == <<"train", "test", "sample", "check", "update">>

StepAfterMut(s) ==
    CASE s = "train" -> "test"
      [] s = "test" -> "check"
      [] s = "check" -> "sample"
      [] s = "sample" -> "update"

\* the block of the loop body that follows block s
StepAfter(s) ==
    CASE s = "train" -> "test"
      [] s = "test" -> "sample"
      [] s = "sample" -> "check"
      [] s = "check" -> "update"

LoopContinuesMut(e, max_epochs) == TRUE

\* for epoch in range(early_stopping.max_epochs)
LoopContinues(e, max_epochs) == e < max_epochs

EpochArgMut(e) == e + 1

\* first argument of early_stopping(epoch, ...)
EpochArg(e) == e

\* second argument: float(loss_numerator) / float(loss_denominator)
MetricArg(num, den) == <<num, den>>

AfterCheckMut(stop) == StepAfter("check")

\* if early_stopping(...): break
AfterCheck(stop) == IF stop THEN "stopped" ELSE StepAfter("check")

RefitDueMut(e, period) == (e + 1) % period = 0

\* type(model.classifier) is DDT and epoch % tree_update_period == 0
RefitDue(e, period) == e % period = 0

PriorAfterMinibatchMut(p, t) == TreeDistribution(t)

\* run_minibatch assigns neither model.prior nor model.classifier
PriorAfterMinibatch(p, t) == p

ParamsAfterMinibatchMut(p, is_train) == p + 1

\* optimizer.apply_gradients runs only under is_train
ParamsAfterMinibatch(p, is_train) == IF is_train THEN p + 1 ELSE p

\* steps of the tree update that can raise
FailPoints == {"none", "update_model_tree", "save_dot", "joblib.dump"}

NoUpdate == [outcome |-> "none", tree |-> NoTree, prior |-> InitialPrior,
             disk_tree |-> NoTree]

NoWork == [epochs |-> 0, mb |-> 0, samples |-> 0, fit |-> 0, dot |-> 0,
           dump |-> 0, prior_set |-> 0, restore |-> 0, load |-> 0, grad |-> 0]

\* idle values of the models that stand beside the cpvae run
NoPass == [active |-> FALSE]
NoVAE == [active |-> FALSE]
NoWalk == [active |-> FALSE]
NoProto == [active |-> FALSE]

Bump(w, f) == [w EXCEPT ![f] = w[f] + 1]

(* ------------------------------- Init ---------------------------------- *)
Callers == {"learn", "setup_from_dir"}

Init ==
    /\ cfg \in [caller : Callers,
                max_epochs : 0..MaxEpochs,
                patience : 0..MaxPatience,
                tree_update_period : 1..MaxPeriod,
                has_ckpt : BOOLEAN]
    /\ pc = "setup"
    /\ epoch = 0
    /\ batch = 0
    /\ loss_numerator = 0
    /\ loss_denominator = 0
    /\ params = 0
    /\ es = NewEarlyStopping
    /\ IF cfg.has_ckpt
       THEN /\ ckpt = [epoch |-> 0, params |-> NumBatches]
            /\ \E k \in 1..MaxLeaves : disk_tree = FittedTree(1, k)
            /\ dumped_at = NumBatches
            /\ fits = 1
       ELSE /\ ckpt = NoCkpt
            /\ disk_tree = NoTree
            /\ dumped_at = -1
            /\ fits = 0
    /\ tree = NoTree
    /\ prior = InitialPrior
    /\ error = <<>>
    /\ log = <<>>
    /\ calls = <<>>
    /\ rets = <<>>
    /\ bestEpoch = -1
    /\ work = NoWork
    /\ refits = <<>>
    /\ lastUpdate = NoUpdate
    /\ seen = {}
    /\ hist = <<>>
    /\ pass = NoPass
    /\ vae = NoVAE
    /\ walk = NoWalk
    /\ proto = NoProto

(* ------------------------------ setup() -------------------------------- *)
\* expect_load as each caller passes it
ExpectLoad(caller) == caller = "setup_from_dir"

\* what the caller does with the value setup returns
AfterSetup(caller) == IF caller = "learn" THEN "epoch_start" ELSE "returned"

\* model_dir of setup, as it would appear in a message
ModelDir == "output_dir/model"

\* raise Exception("Model not loaded")
SetupErrorMessage == <<"Model not loaded">>

\* first test of tf.train.latest_checkpoint(model_dir): checkpoint.restore
RestoresParams(has_ckpt) == has_ckpt

LoadsTreeMut(has_ckpt) == FALSE

\* second test of tf.train.latest_checkpoint(model_dir): joblib.load, else fit
LoadsTree(has_ckpt) == has_ckpt

\* checkpoint.restore(path of the latest checkpoint)
LoadedParams(ck) == ck.params

\* setup assigns model.classifier on the load path, and never model.prior
LoadedPrior(p) == p

SetupLoad ==
    /\ pc = "setup"
    /\ RestoresParams(cfg.has_ckpt)
    /\ LoadsTree(cfg.has_ckpt)
    /\ params' = LoadedParams(ckpt)
    /\ tree' = disk_tree
    /\ prior' = LoadedPrior(prior)
    /\ work' = Bump(Bump(work, "restore"), "load")
    /\ pc' = AfterSetup(cfg.caller)
    /\ UNCHANGED <<cfg, epoch, batch, loss_numerator, loss_denominator, es,
                   ckpt, disk_tree, fits, error, log, calls, rets,
                   bestEpoch, refits, lastUpdate, seen, dumped_at>>
    /\ UNCHANGED aux

SetupMissing ==
    /\ pc = "setup"
    /\ ~RestoresParams(cfg.has_ckpt)
    /\ ExpectLoad(cfg.caller)
    /\ pc' = "failed"
    /\ error' = SetupErrorMessage
    /\ UNCHANGED <<cfg, epoch, batch, loss_numerator, loss_denominator, params,
                   es, ckpt, tree, prior, disk_tree, fits, log, calls, rets,
                   bestEpoch, work, refits, lastUpdate, seen, dumped_at>>
    /\ UNCHANGED aux

SetupFit ==
    /\ pc = "setup"
    /\ RestoresParams(cfg.has_ckpt) \/ ~ExpectLoad(cfg.caller)
    /\ ~LoadsTree(cfg.has_ckpt)
    /\ LET restored == RestoresParams(cfg.has_ckpt)
           p == IF restored THEN LoadedParams(ckpt) ELSE params
           w == IF restored THEN Bump(work, "restore") ELSE work
       IN /\ params' = p
          /\ dumped_at' = p
          /\ work' = Bump(Bump(Bump(w, "fit"), "dot"), "dump")
    /\ \E k \in 1..MaxLeaves :
         /\ tree' = FittedTree(fits + 1, k)
         /\ disk_tree' = FittedTree(fits + 1, k)
    /\ fits' = fits + 1
    /\ pc' = AfterSetup(cfg.caller)
    /\ UNCHANGED <<cfg, epoch, batch, loss_numerator, loss_denominator,
                   es, ckpt, prior, error, log, calls, rets, bestEpoch,
                   refits, lastUpdate, seen>>
    /\ UNCHANGED aux

(* ------------------------------ train() -------------------------------- *)
\* loop header: next value of range(max_epochs), accumulators of the train pass
EpochStart ==
    /\ pc = "epoch_start"
    /\ LoopContinues(epoch, cfg.max_epochs)
    /\ pc' = "train"
    /\ batch' = 0
    /\ loss_numerator' = 0
    /\ loss_denominator' = 0
    /\ log' = <<>>
    /\ seen' = {}
    /\ work' = Bump(work, "epochs")
    /\ UNCHANGED <<cfg, epoch, params, es, ckpt, tree, prior, disk_tree, fits,
                   error, calls, rets, bestEpoch, refits, lastUpdate>>
    /\ UNCHANGED <<dumped_at, hist, pass, vae, walk, proto>>

\* range exhausted: return model
LoopExhausted ==
    /\ pc = "epoch_start"
    /\ ~LoopContinues(epoch, cfg.max_epochs)
    /\ pc' = "stopped"
    /\ UNCHANGED <<cfg, epoch, batch, loss_numerator, loss_denominator, params,
                   es, ckpt, tree, prior, disk_tree, fits, error, log, calls,
                   rets, bestEpoch, work, refits, lastUpdate, seen>>
    /\ UNCHANGED <<dumped_at, hist, pass, vae, walk, proto>>

\* one call of run_minibatch_fn and the three += that follow it
Minibatch(is_train) ==
    /\ batch < NumBatches
    /\ \E s \in SumsOf(BatchSize(batch + 1)) :
         loss_numerator' = loss_numerator + s
    /\ loss_denominator' = loss_denominator + BatchSize(batch + 1)
    /\ batch' = batch + 1
    /\ params' = ParamsAfterMinibatch(params, is_train)
    /\ prior' = PriorAfterMinibatch(prior, tree)
    /\ seen' = seen \cup {<<prior, tree>>}
    /\ work' = IF is_train THEN Bump(Bump(work, "mb"), "grad")
                ELSE Bump(work, "mb")
    /\ UNCHANGED <<cfg, pc, epoch, es, ckpt, tree, disk_tree, fits, error, log,
                   calls, rets, bestEpoch, refits, lastUpdate>>
    /\ UNCHANGED <<dumped_at, hist, pass, vae, walk, proto>>

TrainMinibatch == pc = "train" /\ Minibatch(TRUE)

TestMinibatch == pc = "test" /\ Minibatch(FALSE)

AccumulatorBeforeTestPassMut(acc) == acc

\* loss_numerator = 0, loss_denominator = 0 between the two passes
AccumulatorBeforeTestPass(acc) == 0

\* end of the train pass: its means are printed, the accumulators are reset
EndTrainPass ==
    /\ pc = "train"
    /\ batch = NumBatches
    /\ pc' = StepAfter("train")
    /\ batch' = 0
    /\ loss_numerator' = AccumulatorBeforeTestPass(loss_numerator)
    /\ loss_denominator' = AccumulatorBeforeTestPass(loss_denominator)
    /\ log' = Append(log, "train")
    /\ UNCHANGED <<cfg, epoch, params, es, ckpt, tree, prior, disk_tree, fits,
                   error, calls, rets, bestEpoch, work, refits, lastUpdate,
                   seen>>
    /\ UNCHANGED <<dumped_at, hist, pass, vae, walk, proto>>

\* end of the test pass: its means are printed, the accumulators are kept
EndTestPass ==
    /\ pc = "test"
    /\ batch = NumBatches
    /\ pc' = StepAfter("test")
    /\ log' = Append(log, "test")
    /\ UNCHANGED <<cfg, epoch, batch, loss_numerator, loss_denominator, params,
                   es, ckpt, tree, prior, disk_tree, fits, error, calls, rets,
                   bestEpoch, work, refits, lastUpdate, seen>>
    /\ UNCHANGED <<dumped_at, hist, pass, vae, walk, proto>>

\* sample(model, num_samples, epoch, output_dir): decodes draws of the prior
Sample ==
    /\ pc = "sample"
    /\ pc' = StepAfter("sample")
    /\ seen' = seen \cup {<<prior, tree>>}
    /\ work' = Bump(work, "samples")
    /\ log' = Append(log, "sample")
    /\ UNCHANGED <<cfg, epoch, batch, loss_numerator, loss_denominator, params,
                   es, ckpt, tree, prior, disk_tree, fits, error, calls, rets,
                   bestEpoch, refits, lastUpdate>>
    /\ UNCHANGED <<dumped_at, hist, pass, vae, walk, proto>>

\* if early_stopping(epoch, float(loss_numerator) / float(loss_denominator))
EarlyStoppingCheck ==
    /\ pc = "check"
    /\ LET m == MetricArg(loss_numerator, loss_denominator)
           ep == EpochArg(epoch)
           e2 == ESUpdate(es, m)
           stop == ESStop(e2, ep, cfg.patience, cfg.max_epochs)
       IN /\ es' = e2
          /\ ckpt' = ESCheckpoint(es, m, ckpt, ep, params)
          /\ bestEpoch' = IF Improved(es, m) THEN ep ELSE bestEpoch
          /\ calls' = Append(calls, ep)
          /\ rets' = Append(rets, stop)
          /\ pc' = AfterCheck(stop)
    /\ log' = Append(log, "check")
    /\ UNCHANGED <<cfg, epoch, batch, loss_numerator, loss_denominator, params,
                   tree, prior, disk_tree, fits, error, work, refits,
                   lastUpdate, seen>>
    /\ UNCHANGED <<dumped_at, hist, pass, vae, walk, proto>>

\* update_model_tree, save_dot, joblib.dump, model.prior = ...; any of the
\* first three may raise, and train() catches nothing
TreeUpdate ==
    /\ pc = "update"
    /\ RefitDue(epoch, cfg.tree_update_period)
    /\ refits' = Append(refits, epoch)
    /\ \E k \in 1..MaxLeaves, failAt \in FailPoints :
         LET new == FittedTree(fits + 1, k)
             found == [outcome |-> "", tree |-> tree, prior |-> prior,
                       disk_tree |-> disk_tree]
         IN CASE failAt = "update_model_tree" ->
                   /\ UNCHANGED <<tree, disk_tree, prior, fits, epoch, log,
                                  dumped_at>>
                   /\ work' = work
                   /\ lastUpdate' = [found EXCEPT !.outcome = failAt]
                   /\ error' = <<failAt, "raised">>
                   /\ pc' = "failed"
              [] failAt = "save_dot" ->
                   /\ tree' = new
                   /\ fits' = fits + 1
                   /\ UNCHANGED <<disk_tree, prior, epoch, log, dumped_at>>
                   /\ work' = Bump(work, "fit")
                   /\ lastUpdate' = [found EXCEPT !.outcome = failAt]
                   /\ error' = <<failAt, "raised">>
                   /\ pc' = "failed"
              [] failAt = "joblib.dump" ->
                   /\ tree' = new
                   /\ fits' = fits + 1
                   /\ UNCHANGED <<disk_tree, prior, epoch, log, dumped_at>>
                   /\ work' = Bump(Bump(work, "fit"), "dot")
                   /\ lastUpdate' = [found EXCEPT !.outcome = failAt]
                   /\ error' = <<failAt, "raised">>
                   /\ pc' = "failed"
              [] failAt = "none" ->
                   /\ tree' = new
                   /\ fits' = fits + 1
                   /\ disk_tree' = new
                   /\ dumped_at' = params
                   /\ prior' = TreeDistribution(new)
                   /\ work' = Bump(Bump(Bump(Bump(work, "fit"), "dot"),
                                        "dump"), "prior_set")
                   /\ lastUpdate' = [found EXCEPT !.outcome = "ok"]
                   /\ error' = error
                   /\ log' = Append(log, "update")
                   /\ epoch' = epoch + 1
                   /\ pc' = "epoch_start"
    /\ UNCHANGED <<cfg, batch, loss_numerator, loss_denominator, params, es,
                   ckpt, calls, rets, bestEpoch, seen>>
    /\ UNCHANGED aux

\* the condition of the update is false: on to the next epoch
SkipTreeUpdate ==
    /\ pc = "update"
    /\ ~RefitDue(epoch, cfg.tree_update_period)
    /\ epoch' = epoch + 1
    /\ pc' = "epoch_start"
    /\ UNCHANGED <<cfg, batch, loss_numerator, loss_denominator, params, es,
                   ckpt, tree, prior, disk_tree, fits, error, log, calls, rets,
                   bestEpoch, work, refits, lastUpdate, seen>>
    /\ UNCHANGED <<dumped_at, hist, pass, vae, walk, proto>>

Next ==
    \/ SetupLoad
    \/ SetupMissing
    \/ SetupFit
    \/ EpochStart
    \/ LoopExhausted
    \/ TrainMinibatch
    \/ EndTrainPass
    \/ TestMinibatch
    \/ EndTestPass
    \/ Sample
    \/ EarlyStoppingCheck
    \/ TreeUpdate
    \/ SkipTreeUpdate

Spec == Init /\ [][Next]_vars

\* the loop is one sequential thread: whatever step is enabled is taken
LiveSpec == Spec /\ WF_vars(Next)

(* ------------------- the controller called on its own ----------------- *)
\* A caller that keeps calling one EarlyStopping object with increasing
\* epochs whatever it returns (the controller has to tolerate that).
InitES ==
    /\ cfg \in [caller : {"driver"},
                max_epochs : 0..(MaxDriverCalls + 2),
                patience : 0..MaxPatience,
                tree_update_period : {1},
                has_ckpt : {FALSE}]
    /\ pc = "driver"
    /\ epoch = 0
    /\ batch = 0
    /\ loss_numerator = 0
    /\ loss_denominator = 0
    /\ params = 0
    /\ es = NewEarlyStopping
    /\ ckpt = NoCkpt
    /\ disk_tree = NoTree
    /\ dumped_at = -1
    /\ fits = 0
    /\ tree = NoTree
    /\ prior = InitialPrior
    /\ error = <<>>
    /\ log = <<>>
    /\ calls = <<>>
    /\ rets = <<>>
    /\ bestEpoch = -1
    /\ work = NoWork
    /\ refits = <<>>
    /\ lastUpdate = NoUpdate
    /\ seen = {}
    /\ hist = <<>>
    /\ pass = NoPass
    /\ vae = NoVAE
    /\ walk = NoWalk
    /\ proto = NoProto

DriverCall ==
    /\ pc = "driver"
    /\ epoch < MaxDriverCalls
    /\ \E v \in DriverMetrics :
         LET m == <<v, 1>>
             e2 == ESUpdate(es, m)
             stop == ESStop(e2, epoch, cfg.patience, cfg.max_epochs)
         IN /\ es' = e2
            /\ ckpt' = ESCheckpoint(es, m, ckpt, epoch, params)
            /\ bestEpoch' = IF Improved(es, m) THEN epoch ELSE bestEpoch
            /\ calls' = Append(calls, epoch)
            /\ rets' = Append(rets, stop)
    /\ epoch' = epoch + 1
    /\ UNCHANGED <<cfg, pc, batch, loss_numerator, loss_denominator, params,
                   tree, prior, disk_tree, fits, error, log, work, refits,
                   lastUpdate, seen>>
    /\ UNCHANGED <<dumped_at, hist, pass, vae, walk, proto>>

NextES == DriverCall

SpecES == InitES /\ [][NextES]_vars

(* ---------------- one pass of train, example by example ---------------- *)
\* variables of a run of train that the models below leave at rest
trainVars == <<batch, loss_numerator, loss_denominator, tree, prior,
               disk_tree, dumped_at, fits, log, refits, lastUpdate, seen>>

esVars == <<epoch, params, es, ckpt, calls, rets, bestEpoch, error, work>>

IdleTrain ==
    /\ batch = 0
    /\ loss_numerator = 0
    /\ loss_denominator = 0
    /\ tree = NoTree
    /\ prior = InitialPrior
    /\ disk_tree = NoTree
    /\ dumped_at = -1
    /\ fits = 0
    /\ log = <<>>
    /\ refits = <<>>
    /\ lastUpdate = NoUpdate
    /\ seen = {}

IdleES ==
    /\ epoch = 0
    /\ params = 0
    /\ es = NewEarlyStopping
    /\ ckpt = NoCkpt
    /\ calls = <<>>
    /\ rets = <<>>
    /\ bestEpoch = -1
    /\ error = <<>>
    /\ work = NoWork

MaxExamples == 3

\* per-example outputs of the forward computation: distortion d, rate r,
\* cross-entropy c, and whether the predicted label is the true one
Examples ==
    {[d |-> v, r |-> 4, c |-> IF hit THEN 1 ELSE 8, correct |-> hit] :
        v \in LossValues, hit \in BOOLEAN}

\* <<alpha, beta, gamma>>
Weights == {<<1, 1, 1>>, <<1, 0, 0>>}

\* the ways of cutting n examples into consecutive non-empty batches
RECURSIVE Compositions(_)
Compositions(n) ==
    IF n = 0 THEN {<<>>}
    ELSE UNION {{<<k>> \o c : c \in Compositions(n - k)} : k \in 1..n}

RECURSIVE ReduceSum(_)
ReduceSum(s) == IF s = <<>> THEN 0 ELSE Head(s) + ReduceSum(Tail(s))

JointLossMut(alpha, beta, gamma, x) == alpha * x.d + beta * x.r + x.c

\* alpha * distortion + beta * rate + gamma * classification_loss
JointLoss(alpha, beta, gamma, x) == alpha * x.d + beta * x.r + gamma * x.c

\* loss_numerator = tf.reduce_sum(alpha*distortion + beta*rate + gamma*ce)
BatchLossNumerator(w, xs) ==
    ReduceSum([i \in 1..Len(xs) |-> JointLoss(w[1], w[2], w[3], xs[i])])

\* classification_rate_numerator = reduce_sum(cast(equal(prediction, labels)))
BatchRateNumerator(xs) ==
    ReduceSum([i \in 1..Len(xs) |-> IF xs[i].correct THEN 1 ELSE 0])

BatchDenominatorMut(xs) == 1

\* loss_denominator = x.shape[0]
BatchDenominator(xs) == Len(xs)

\* loss = tf.reduce_mean(...), as a fraction
BatchLoss(w, xs) == <<BatchLossNumerator(w, xs), Len(xs)>>

NoReport == [loss |-> <<0, 0>>, classification_rate |-> <<0, 0>>]

InitPass ==
    /\ cfg = [caller |-> "pass", max_epochs |-> 1, patience |-> 0,
              tree_update_period |-> 1, has_ckpt |-> FALSE]
    /\ pc = "pass"
    /\ IdleTrain
    /\ IdleES
    /\ hist = <<>>
    /\ vae = NoVAE
    /\ walk = NoWalk
    /\ proto = NoProto
    /\ \E n \in 1..MaxExamples :
         \E data \in [1..n -> Examples], sizes \in Compositions(n),
            w \in Weights, is_train \in BOOLEAN :
           pass = [active |-> TRUE, data |-> data, sizes |-> sizes, w |-> w,
                   is_train |-> is_train, k |-> 0, pos |-> 0,
                   loss_numerator |-> 0,
                   classification_rate_numerator |-> 0,
                   loss_denominator |-> 0,
                   loss |-> <<0, 0>>,
                   reported |-> NoReport]

\* one iteration of "for batch in train_batches" / "for batch in test_batches"
PassMinibatch ==
    /\ pc = "pass"
    /\ pass.k < Len(pass.sizes)
    /\ LET n == pass.sizes[pass.k + 1]
           xs == SubSeq(pass.data, pass.pos + 1, pass.pos + n)
       IN pass' = [pass EXCEPT
              !.k = @ + 1,
              !.pos = @ + n,
              !.loss = BatchLoss(pass.w, xs),
              !.loss_numerator = @ + BatchLossNumerator(pass.w, xs),
              !.classification_rate_numerator = @ + BatchRateNumerator(xs),
              !.loss_denominator = @ + BatchDenominator(xs)]
    /\ UNCHANGED <<cfg, pc, hist, vae>>
    /\ UNCHANGED trainVars
    /\ UNCHANGED <<walk, proto>>
    /\ UNCHANGED esVars

\* the two tf.print after the loop; the test pass's loss is the metric that
\* early_stopping receives
EndPass ==
    /\ pc = "pass"
    /\ pass.k = Len(pass.sizes)
    /\ pass' = [pass EXCEPT
           !.reported =
               [loss |-> MetricArg(pass.loss_numerator, pass.loss_denominator),
                classification_rate |->
                    <<pass.classification_rate_numerator,
                      pass.loss_denominator>>]]
    /\ pc' = "pass_done"
    /\ UNCHANGED <<cfg, hist, vae>>
    /\ UNCHANGED trainVars
    /\ UNCHANGED <<walk, proto>>
    /\ UNCHANGED esVars

NextPass == PassMinibatch \/ EndPass

SpecPass == InitPass /\ [][NextPass]_vars

(* ------------------------- VAE.forward_loss ---------------------------- *)
MaxForwardCalls == 3

DefaultMcSamples == 100

McSamples == {1, DefaultMcSamples}

MVNLinearOperator == "MultivariateNormalLinearOperator"

\* distribution classes a VAE can be built with
PriorClasses == {"MultivariateNormalDiag", "MultivariateNormalTriL",
                 "MixtureSameFamily", "Normal"}

PosteriorClasses == {"MultivariateNormalDiag", "MultivariateNormalTriL",
                     "Normal"}

\* base class of a distribution class
BaseOf(c) ==
    CASE c = "MultivariateNormalDiag" -> MVNLinearOperator
      [] c = "MultivariateNormalTriL" -> MVNLinearOperator
      [] OTHER -> "Distribution"

RECURSIVE IsSubclass(_, _)
IsSubclass(c, k) ==
    IF c = k THEN TRUE
    ELSE IF c = "Distribution" THEN FALSE
    ELSE IsSubclass(BaseOf(c), k)

IsInstance(obj, k) == IsSubclass(obj.class, k)

\* VAE.posterior: tfd.Independent(self._posterior_fn(loc, scale_diag), ...)
Posterior(posterior_fn) ==
    [class |-> "Independent", distribution |-> posterior_fn]

\* the test that chooses tfd.kl_divergence in forward_loss
UsesKL(self_prior, z_posterior) ==
    /\ IsInstance(self_prior, MVNLinearOperator)
    /\ IsInstance(z_posterior, MVNLinearOperator)

NoResult == [path |-> "none", sample_size |-> 0, recon_loss |-> 0]

InitVAE ==
    /\ cfg = [caller |-> "vae", max_epochs |-> 1, patience |-> 0,
              tree_update_period |-> 1, has_ckpt |-> FALSE]
    /\ pc = "vae"
    /\ IdleTrain
    /\ IdleES
    /\ hist = <<>>
    /\ pass = NoPass
    /\ walk = NoWalk
    /\ proto = NoProto
    /\ \E pr \in PriorClasses, fn \in PosteriorClasses :
         vae = [active |-> TRUE,
                prior |-> [class |-> pr, distribution |-> pr],
                posterior_fn |-> fn,
                calls |-> 0,
                z |-> [class |-> "none", distribution |-> "none"],
                result |-> NoResult]

\* VAE.posterior called on its own
PosteriorCall ==
    /\ pc = "vae"
    /\ vae.z.class = "none"
    /\ vae' = [vae EXCEPT !.z = Posterior(vae.posterior_fn)]
    /\ UNCHANGED <<cfg, pc, hist, pass>>
    /\ UNCHANGED trainVars
    /\ UNCHANGED <<walk, proto>>
    /\ UNCHANGED esVars

\* VAE.forward_loss(inputs, mc_samples)
ForwardLoss ==
    /\ pc = "vae"
    /\ vae.calls < MaxForwardCalls
    /\ \E mc_samples \in McSamples, recon \in LossValues :
         LET z_posterior == Posterior(vae.posterior_fn)
         IN vae' = [vae EXCEPT
                !.calls = @ + 1,
                !.z = z_posterior,
                !.result =
                    IF UsesKL(vae.prior, z_posterior)
                    THEN [path |-> "kl", sample_size |-> 0,
                          recon_loss |-> recon]
                    ELSE [path |-> "mc", sample_size |-> mc_samples,
                          recon_loss |-> recon]]
    /\ UNCHANGED <<cfg, pc, hist, pass>>
    /\ UNCHANGED trainVars
    /\ UNCHANGED <<walk, proto>>
    /\ UNCHANGED esVars

NextVAE == PosteriorCall \/ ForwardLoss

SpecVAE == InitVAE /\ [][NextVAE]_vars

(* -------------- features.train and the prototype phases --------------- *)
\* for epoch in range(10000)
FeaturesLoopCap == 10000

\* features.train loops over range(10000), a prototype phase over
\* range(max_epochs_phase_n)
LoopBound(caller, max_epochs) ==
    IF caller = "features" THEN FeaturesLoopCap ELSE max_epochs

RestoredParamsMut(ck, p) == p

\* checkpoint.restore(ckpt_manager.latest_checkpoint)
RestoredParams(ck, p) == ck.params

\* features.learn hands its max_epochs to the controller; the prototype
\* phases build theirs without one, so its cap is whatever the default is
InitFeat ==
    /\ \E caller \in {"features", "prototype"}, m \in 0..MaxEpochs,
          pt \in 0..MaxPatience, cap \in 0..(MaxEpochs + 1) :
         /\ caller = "features" => cap = m
         /\ cfg = [caller |-> caller, max_epochs |-> m, patience |-> pt,
                   es_max_epochs |-> cap, tree_update_period |-> 1,
                   has_ckpt |-> FALSE]
    /\ pc = "feat_loop"
    /\ IdleTrain
    /\ IdleES
    /\ hist = <<>>
    /\ pass = NoPass
    /\ vae = NoVAE
    /\ walk = NoWalk
    /\ proto = NoProto

\* train pass and test pass of one epoch
FeatEpoch ==
    /\ pc = "feat_loop"
    /\ epoch < LoopBound(cfg.caller, cfg.max_epochs)
    /\ params' = params + NumBatches
    /\ \E v \in DriverMetrics :
         hist' = Append(hist, [metric |-> MetricArg(v, 1),
                               params |-> params + NumBatches])
    /\ pc' = "feat_check"
    /\ UNCHANGED <<cfg, epoch, es, ckpt, calls, rets, bestEpoch, error, work,
                   pass, vae>>
    /\ UNCHANGED trainVars
    /\ UNCHANGED <<walk, proto>>

\* if early_stopping(epoch, float(loss_numerator) / float(denominator)): break
FeatCheck ==
    /\ pc = "feat_check"
    /\ LET m == Last(hist).metric
           e2 == ESUpdate(es, m)
           stop == ESStop(e2, epoch, cfg.patience, cfg.es_max_epochs)
       IN /\ es' = e2
          /\ ckpt' = ESCheckpoint(es, m, ckpt, epoch, params)
          /\ bestEpoch' = IF Improved(es, m) THEN epoch ELSE bestEpoch
          /\ calls' = Append(calls, epoch)
          /\ rets' = Append(rets, stop)
          /\ IF stop
             THEN pc' = "feat_restore" /\ epoch' = epoch
             ELSE pc' = "feat_loop" /\ epoch' = epoch + 1
    /\ UNCHANGED <<cfg, params, error, work, hist, pass, vae>>
    /\ UNCHANGED trainVars
    /\ UNCHANGED <<walk, proto>>

\* range() exhausted without a break
FeatExhausted ==
    /\ pc = "feat_loop"
    /\ epoch >= LoopBound(cfg.caller, cfg.max_epochs)
    /\ pc' = "feat_restore"
    /\ UNCHANGED <<cfg, hist, pass, vae>>
    /\ UNCHANGED trainVars
    /\ UNCHANGED <<walk, proto>>
    /\ UNCHANGED esVars

\* checkpoint.restore(ckpt_manager.latest_checkpoint).assert_consumed()
FeatRestore ==
    /\ pc = "feat_restore"
    /\ IF ckpt = NoCkpt
       THEN /\ pc' = "failed"
            /\ error' = <<"assert_consumed", "raised">>
            /\ params' = params
       ELSE /\ pc' = "feat_done"
            /\ params' = RestoredParams(ckpt, params)
            /\ error' = error
    /\ UNCHANGED <<cfg, epoch, es, ckpt, calls, rets, bestEpoch, work, hist,
                   pass, vae>>
    /\ UNCHANGED trainVars
    /\ UNCHANGED <<walk, proto>>

NextFeat == FeatEpoch \/ FeatCheck \/ FeatExhausted \/ FeatRestore

SpecFeat == InitFeat /\ [][NextFeat]_vars

(* ------------------------------ walk() --------------------------------- *)
MaxTreeDepth == 2

\* largest index of a latent dimension a split can test
MaxFeature == 2

\* tree_.feature of a leaf
TreeUndefined == -2

\* tree_.feature of the fitted trees: nodes in depth-first order, a node
\* followed by its left subtree and then its right subtree
RECURSIVE Trees(_)
Trees(d) ==
    IF d = 0 THEN {<<TreeUndefined>>}
    ELSE {<<TreeUndefined>>} \cup
         {<<f>> \o l \o r : f \in 0..MaxFeature, l \in Trees(d - 1),
                            r \in Trees(d - 1)}

\* node indices (1-based) of the leaves, in node order: one mixture
\* component per leaf
LeafNodes(all_features) ==
    SelectSeq([i \in 1..Len(all_features) |-> i],
              LAMBDA i : all_features[i] = TreeUndefined)

RECURSIVE SelectedFrom(_, _)
SelectedFrom(all_features, i) ==
    IF i > Len(all_features) - 2 THEN <<>>
    ELSE (IF all_features[i + 1] < 0 /\ all_features[i] > 0
          THEN <<all_features[i]>> ELSE <<>>)
         \o SelectedFrom(all_features, i + 1)

\* features = [all_features[i] for i in range(len(all_features) - 2)
\*             if all_features[i + 1] < 0 and all_features[i] > 0]
SelectedFeatures(all_features) == SelectedFrom(all_features, 1)

\* range(len(model.classifier.tree_distribution.components) // 2)
NumPairs(components) == Len(components) \div 2

InitWalk ==
    /\ cfg = [caller |-> "walk", max_epochs |-> 1, patience |-> 0,
              tree_update_period |-> 1, has_ckpt |-> FALSE]
    /\ pc = "walk_select"
    /\ IdleTrain
    /\ IdleES
    /\ hist = <<>>
    /\ pass = NoPass
    /\ vae = NoVAE
    /\ proto = NoProto
    /\ \E t \in Trees(MaxTreeDepth) :
         walk = [active |-> TRUE,
                 all_features |-> t,
                 components |-> LeafNodes(t),
                 features |-> <<>>,
                 i |-> 0,
                 axis |-> <<>>,
                 direct |-> 0]

\* the list comprehension that selects the split features
WalkSelect ==
    /\ pc = "walk_select"
    /\ walk' = [walk EXCEPT !.features = SelectedFeatures(walk.all_features)]
    /\ pc' = "walk_axis"
    /\ UNCHANGED <<cfg, hist, pass, vae, proto>>
    /\ UNCHANGED trainVars
    /\ UNCHANGED esVars

\* one iteration of the axis-walk loop; features[i] raises IndexError when
\* the list is too short
AxisWalk ==
    /\ pc = "walk_axis"
    /\ walk.i < NumPairs(walk.components)
    /\ IF walk.i + 1 > Len(walk.features)
       THEN /\ pc' = "failed"
            /\ error' = <<"IndexError", "raised">>
            /\ walk' = walk
       ELSE /\ pc' = pc
            /\ error' = error
            /\ walk' = [walk EXCEPT
                   !.i = @ + 1,
                   !.axis = Append(@,
                       [comp_a |-> walk.components[2 * walk.i + 1],
                        comp_b |-> walk.components[2 * walk.i + 2],
                        feature |-> walk.features[walk.i + 1]])]
    /\ UNCHANGED <<cfg, hist, pass, vae, proto>>
    /\ UNCHANGED trainVars
    /\ UNCHANGED <<epoch, params, es, ckpt, calls, rets, bestEpoch, work>>

\* the direct walks between every pair of components
DirectWalks ==
    /\ pc = "walk_axis"
    /\ walk.i >= NumPairs(walk.components)
    /\ walk' = [walk EXCEPT
           !.direct = Len(walk.components) * Len(walk.components)]
    /\ pc' = "walk_done"
    /\ UNCHANGED <<cfg, hist, pass, vae, proto>>
    /\ UNCHANGED trainVars
    /\ UNCHANGED esVars

NextWalk == WalkSelect \/ AxisWalk \/ DirectWalks

SpecWalk == InitWalk /\ [][NextWalk]_vars

(* ------------------- prototype.learn: run_minibatch -------------------- *)
MaxProtoEpochs == 6

\* epoch from which the delayed conv-stack training is meant to start
DelayEpochs == 5

\* the variable lists of the ProtoPNet model
trainable_prototype_vars == <<"prototypes">>
trainable_conv_stack_vars == <<"conv_kernel", "conv_bias">>
trainable_classifier_vars == <<"classifier">>

ModelVars == Range(trainable_prototype_vars)
                 \cup Range(trainable_conv_stack_vars)
                 \cup Range(trainable_classifier_vars)

\* keys model.conv_prototype_objective may return
ObjectiveTerms == {"cluster", "l1", "separation"}

LossTermsMut(phase, keys) ==
    {"classification"} \cup (keys \cap {"cluster", "l1", "separation"})

\* build loss: classification, plus the terms of loss_term_dict the phase uses
LossTerms(phase, keys) ==
    {"classification"}
        \cup (IF "cluster" \in keys /\ phase = 1 THEN {"cluster"} ELSE {})
        \cup (IF "l1" \in keys THEN {"l1"} ELSE {})
        \cup (IF "separation" \in keys /\ phase = 1 THEN {"separation"}
              ELSE {})

\* choose which variables are being trained
TrainVars(phase, delay_conv_stack_training, ep) ==
    IF phase = 1
    THEN (trainable_prototype_vars \o trainable_conv_stack_vars)
             \o (IF delay_conv_stack_training /\ ep >= DelayEpochs
                 THEN trainable_conv_stack_vars
                 ELSE trainable_conv_stack_vars)
    ELSE trainable_classifier_vars

\* number of entries of a (gradient, variable) list that name variable v
Occurrences(train_vars, v) ==
    Cardinality({i \in 1..Len(train_vars) : train_vars[i] = v})

NoMinibatch == [phase |-> 0, is_train |-> FALSE, epoch |-> -1,
                loss_terms |-> {}, train_vars |-> <<>>]

InitProto ==
    /\ cfg = [caller |-> "prototype", max_epochs |-> MaxProtoEpochs,
              patience |-> 0, tree_update_period |-> 1, has_ckpt |-> FALSE]
    /\ pc = "proto_train"
    /\ IdleTrain
    /\ IdleES
    /\ hist = <<>>
    /\ pass = NoPass
    /\ vae = NoVAE
    /\ walk = NoWalk
    /\ \E delay \in BOOLEAN, keys \in SUBSET ObjectiveTerms :
         proto = [active |-> TRUE,
                  delay_conv_stack_training |-> delay,
                  keys |-> keys,
                  phase |-> 1,
                  epoch |-> 0,
                  calls |-> 0,
                  updates |-> [v \in ModelVars |-> 0],
                  pushes |-> 0,
                  last |-> NoMinibatch]

\* run_minibatch(epoch, batch, phase, is_train)
ProtoMinibatch(is_train) ==
    LET train_vars == IF is_train
                      THEN TrainVars(proto.phase,
                                     proto.delay_conv_stack_training,
                                     proto.epoch)
                      ELSE <<>>
    IN proto' = [proto EXCEPT
           !.calls = @ + 1,
           !.updates = [v \in ModelVars |->
                            proto.updates[v] + Occurrences(train_vars, v)],
           !.last = [phase |-> proto.phase,
                     is_train |-> is_train,
                     epoch |-> proto.epoch,
                     loss_terms |-> LossTerms(proto.phase, proto.keys),
                     train_vars |-> train_vars]]

\* the train pass of an epoch of phase 1 or 3
ProtoTrainMinibatch ==
    /\ pc = "proto_train"
    /\ proto.epoch < cfg.max_epochs
    /\ ProtoMinibatch(TRUE)
    /\ pc' = "proto_test"
    /\ UNCHANGED <<cfg, hist, pass, vae, walk>>
    /\ UNCHANGED trainVars
    /\ UNCHANGED esVars

\* the test pass of the epoch
ProtoTestMinibatch ==
    /\ pc = "proto_test"
    /\ ProtoMinibatch(FALSE)
    /\ pc' = "proto_check"
    /\ UNCHANGED <<cfg, hist, pass, vae, walk>>
    /\ UNCHANGED trainVars
    /\ UNCHANGED esVars

\* early stopping did not break: next epoch
ProtoNextEpoch ==
    /\ pc = "proto_check"
    /\ proto' = [proto EXCEPT !.epoch = @ + 1]
    /\ pc' = "proto_train"
    /\ UNCHANGED <<cfg, hist, pass, vae, walk>>
    /\ UNCHANGED trainVars
    /\ UNCHANGED esVars

\* the loop of the phase ends, by break or by exhausting range(); after
\* phase 1 the prototypes are pushed and phase 3 starts at epoch 0
ProtoEndPhase ==
    /\ \/ pc = "proto_check"
       \/ pc = "proto_train" /\ proto.epoch >= cfg.max_epochs
    /\ IF proto.phase = 1
       THEN /\ proto' = [proto EXCEPT !.phase = 3, !.epoch = 0,
                                      !.pushes = @ + 1]
            /\ pc' = "proto_train"
       ELSE /\ proto' = proto
            /\ pc' = "proto_done"
    /\ UNCHANGED <<cfg, hist, pass, vae, walk>>
    /\ UNCHANGED trainVars
    /\ UNCHANGED esVars

NextProto ==
    \/ ProtoTrainMinibatch
    \/ ProtoTestMinibatch
    \/ ProtoNextEpoch
    \/ ProtoEndPhase

SpecProto == InitProto /\ [][NextProto]_vars

(* ------------------------------ properties -----------------------------*)
Body == {"train", "test", "sample", "check", "update"}

\* C1: every epoch of train runs train pass, test pass, sampling, the
\* early-stopping check and then the optional tree update, in that order; a
\* step of an epoch runs only after the check of every earlier epoch, and the
\* controller is called once per epoch with the epochs 0, 1, 2, ... in order.
EpochStepOrder ==
    /\ IsPrefix(log, StepOrder)
    /\ pc \in Body => (pc = StepOrder[Len(log) + 1] /\ epoch = work.epochs - 1)
    /\ calls = [i \in 1..Len(calls) |-> i - 1]
    /\ Len(calls) = IF "check" \in Range(log) THEN work.epochs
                    ELSE IF work.epochs = 0 THEN 0 ELSE work.epochs - 1

EpochStepOrderWitness ==
    /\ pc = "epoch_start"
    /\ epoch = 2
    /\ calls = <<0, 1>>
    /\ log = StepOrder

\* C2: train ends for every metric sequence (it returns, or a step of it
\* raised), and the number of epochs it ran never exceeds max_epochs.
TrainEndsWithinCap ==
    /\ [](work.epochs <= cfg.max_epochs)
    /\ (pc = "epoch_start") ~> (pc \in {"stopped", "failed"})

TrainEndsWithinCapWitness ==
    /\ pc = "stopped"
    /\ work.epochs = cfg.max_epochs
    /\ work.epochs >= 3

\* C3: once the early-stopping call has returned true the loop is over in
\* that epoch: no minibatch, sampling, refit, tree save or prior replacement
\* follows it.
StopEndsLoop ==
    /\ []((rets # <<>> /\ Last(rets)) => (pc = "stopped" /\ epoch = Last(calls)))
    /\ [][(rets # <<>> /\ Last(rets)) =>
            UNCHANGED <<work, tree, prior, disk_tree, refits, params>>]_vars

StopEndsLoopWitness ==
    /\ pc = "stopped"
    /\ rets # <<>> /\ Last(rets)
    /\ es.steps > cfg.patience
    /\ epoch < cfg.max_epochs - 1
    /\ RefitDue(epoch, cfg.tree_update_period)

\* C4: a call of the controller either takes the metric as the new best,
\* resets the counter and saves a checkpoint of the current parameters (the
\* metric improved by more than eps), or adds one to the counter and leaves
\* best and checkpoint alone; it returns true exactly when the counter
\* exceeds patience or epoch >= max_epochs - 1.
ControllerCallContract ==
    [][pc = "check" =>
        LET m == <<loss_numerator, loss_denominator>> IN
        /\ IF Improved(es, m)
           THEN /\ es'.best = m
                /\ es'.steps = 0
                /\ ckpt' = [epoch |-> epoch, params |-> params]
           ELSE /\ es'.best = es.best
                /\ es'.steps = es.steps + 1
                /\ ckpt' = ckpt
        /\ Last(rets') = (es'.steps > cfg.patience \/ epoch >= cfg.max_epochs - 1)
      ]_vars

ControllerCallContractWitness ==
    /\ Len(rets) >= 3
    /\ es.steps = 1
    /\ bestEpoch >= 1
    /\ ckpt.epoch = bestEpoch

\* C5: with the last improvement at best_epoch and the cap not reached, the
\* call returns false at every epoch before best_epoch + patience + 1 and
\* true for the first time exactly at best_epoch + patience + 1.
PlateauStop ==
    rets # <<>> =>
        LET e == Last(calls) IN
        /\ ~Last(rets) => e < bestEpoch + cfg.patience + 1
        /\ (Last(rets) /\ e < cfg.max_epochs - 1) =>
              /\ e = bestEpoch + cfg.patience + 1
              /\ \A i \in 1..(Len(rets) - 1) : ~rets[i]

PlateauStopWitness ==
    /\ rets # <<>> /\ Last(rets)
    /\ Last(calls) < cfg.max_epochs - 1
    /\ bestEpoch >= 1

RefitSchedule ==
    /\ \A i \in 1..Len(refits) :
          /\ refits[i] % cfg.tree_update_period = 0
          /\ ~rets[refits[i] + 1]
    /\ \A e \in 0..(epoch - 1) :
          e % cfg.tree_update_period = 0 => e \in Range(refits)
    /\ \A i \in 1..(Len(refits) - 1) :
          refits[i + 1] - refits[i] = cfg.tree_update_period
    /\ (refits # <<>> /\ pc # "failed") =>
          /\ lastUpdate.outcome = "ok"
          /\ tree.gen = fits
          /\ tree # lastUpdate.tree
          /\ prior = TreeDistribution(tree)

RefitScheduleWitness ==
    /\ pc = "train"
    /\ batch = 0
    /\ epoch = 3
    /\ cfg.tree_update_period = 2
    /\ refits = <<0, 2>>
    /\ prior = TreeDistribution(tree)

\* C8: in every state of a run, from the return of setup on, the prior has
\* as many mixture components as the current tree has leaves.
PriorMatchesTree ==
    pc \in Body \cup {"epoch_start", "stopped", "returned"} =>
        prior.components = tree.leaves

\* C9: a tree update is atomic: after a successful one the tree, the prior
\* and ddt.joblib are the new ones; after a failed one the failure is
\* surfaced and all three are the ones the update found.
AtomicTreeUpdate ==
    /\ lastUpdate.outcome = "ok" =>
          /\ tree.gen = fits
          /\ prior = TreeDistribution(tree)
          /\ disk_tree = tree
    /\ lastUpdate.outcome \in FailPoints \ {"none"} =>
          /\ error # <<>>
          /\ tree = lastUpdate.tree
          /\ prior = lastUpdate.prior
          /\ disk_tree = lastUpdate.disk_tree

\* C10: the prior and the tree change only in the tree-update step; all the
\* minibatches of an epoch and its sampling observe one prior and one tree.
PriorTreeFrame ==
    /\ [](Cardinality(seen) <= 1)
    /\ [][(pc \in {"epoch_start", "train", "test", "sample", "check"}) =>
            (prior' = prior /\ tree' = tree)]_vars

PriorTreeFrameWitness ==
    /\ pc = "check"
    /\ epoch >= 1
    /\ work.mb = 2 * NumBatches * (epoch + 1)
    /\ seen = {<<prior, tree>>}
    /\ prior.kind = "mixture"


\* what a later setup would reload from the files a run has left: parameters
\* from the latest checkpoint, tree from ddt.joblib, and the prior that
\* build_saveable_objects builds, which setup leaves as it is
Reloaded ==
    [params |-> LoadedParams(ckpt),
     tree |-> disk_tree,
     prior |-> LoadedPrior(InitialPrior)]

\* C11: at every epoch boundary of a run of train, the state a later setup
\* reloads is one the run held at a single save point: the tree in ddt.joblib
\* was fitted on the parameters that the latest checkpoint holds, and the
\* reloaded prior is the mixture of the reloaded tree.
ResumeRoundTrip ==
    (pc \in {"epoch_start", "stopped", "returned"} /\ work.epochs >= 1) =>
        /\ dumped_at = Reloaded.params
        /\ Reloaded.prior = TreeDistribution(Reloaded.tree)


\* C12: when setup is called with expect_load (as setup_from_dir does) and
\* the model directory holds no checkpoint, setup fails with an error whose
\* message names the model directory.
MissingCheckpointNamesDirectory ==
    (ExpectLoad(cfg.caller) /\ ~cfg.has_ckpt /\ pc # "setup") =>
        /\ pc = "failed"
        /\ error # <<>>
        /\ ModelDir \in Range(error)


\* C13: a minibatch of the test pass runs no backward pass: the parameters
\* and the number of optimizer steps are the same before and after it, while
\* the loss sum and the batch size it returns are those of the forward
\* computation of a train minibatch.
TestPassNoBackward ==
    [][(pc = "test" /\ batch' = batch + 1) =>
        /\ params' = params
        /\ work'.grad = work.grad
        /\ work'.mb = work.mb + 1
        /\ loss_denominator' = loss_denominator + BatchSize(batch')
        /\ (loss_numerator' - loss_numerator) \in SumsOf(BatchSize(batch'))]_vars

TestPassNoBackwardWitness ==
    /\ pc = "test"
    /\ batch = NumBatches
    /\ epoch >= 1
    /\ work.grad = (epoch + 1) * NumBatches
    /\ work.mb = 2 * work.grad


\* setup has returned and train has not yet started an epoch
SetupReturned == pc \notin {"setup", "failed"} /\ work.epochs = 0

\* C17: the tree is created at setup or loaded from disk, never both and
\* never neither: with a checkpoint in the model directory setup restores the
\* parameters and loads the tree, without a fit or a write of ddt.joblib;
\* without one it fits the tree, exports the graph file and writes ddt.joblib.
\* Either way the model setup returns holds a fitted tree.
TreeCreatedOrLoaded ==
    SetupReturned =>
        /\ tree # NoTree
        /\ tree.leaves >= 1
        /\ tree = disk_tree
        /\ work.load + work.fit = 1
        /\ IF cfg.has_ckpt
           THEN /\ work.restore = 1
                /\ work.load = 1
                /\ params = LoadedParams(ckpt)
                /\ work.fit = 0 /\ work.dot = 0 /\ work.dump = 0
                /\ fits = 1
           ELSE /\ work.restore = 0
                /\ work.load = 0
                /\ work.fit = 1 /\ work.dot = 1 /\ work.dump = 1
                /\ fits = 1
                /\ dumped_at = params

TreeCreatedOrLoadedWitness ==
    /\ SetupReturned
    /\ cfg.has_ckpt
    /\ work.load = 1
    /\ tree.leaves = MaxLeaves


\* the toy scenario: 3 epochs, a refit every epoch, a fresh output directory
ToyEpochs == 3
ToyPeriod == 1
\* a tree of depth 1 over two separable classes: one split, two leaves
ToyLeaves == 2

ToyScenario ==
    /\ cfg.caller = "learn"
    /\ cfg.max_epochs = ToyEpochs
    /\ cfg.tree_update_period = ToyPeriod
    /\ ~cfg.has_ckpt

\* C18: in the toy scenario, after every refit of the run (the fit in setup
\* and each tree update of train) the tree has two leaves and the prior of
\* the model is a mixture of two components.
ToyRefits ==
    (ToyScenario /\ fits >= 1 /\ pc # "failed" /\ tree.leaves = ToyLeaves) =>
        /\ prior.kind = "mixture"
        /\ prior.components = ToyLeaves


\* equality of two fractions <<numerator, denominator>>
RatEq(a, b) == a[2] # 0 /\ b[2] # 0 /\ a[1] * b[2] = b[1] * a[2]

\* the examples of a pass, as a sequence of per-example values
LossOf(w, xs) == [i \in 1..Len(xs) |-> JointLoss(w[1], w[2], w[3], xs[i])]
HitsOf(xs) == [i \in 1..Len(xs) |-> IF xs[i].correct THEN 1 ELSE 0]
DistortionOf(xs) == [i \in 1..Len(xs) |-> xs[i].d]

DistortionOnly ==
    (pass.active /\ pass.w = <<1, 0, 0>>) =>
        /\ pass.loss_numerator =
               ReduceSum(DistortionOf(SubSeq(pass.data, 1, pass.pos)))
        /\ pass.k > 0 =>
               LET n == pass.sizes[pass.k]
                   xs == SubSeq(pass.data, pass.pos - n + 1, pass.pos)
               IN pass.loss = <<ReduceSum(DistortionOf(xs)), n>>
        /\ pc = "pass_done" =>
               RatEq(pass.reported.loss,
                     <<ReduceSum(DistortionOf(pass.data)), Len(pass.data)>>)

DistortionOnlyWitness ==
    /\ pc = "pass_done"
    /\ pass.w = <<1, 0, 0>>
    /\ ~pass.is_train
    /\ Len(pass.data) >= 2
    /\ \E i \in 1..Len(pass.data) : ~pass.data[i].correct
    /\ \E i \in 1..Len(pass.data) : pass.data[i].correct


\* prior and the distribution posterior_fn builds are Gaussians of one family
SameFamilyGaussians(prior_class, posterior_class) ==
    /\ IsSubclass(prior_class, MVNLinearOperator)
    /\ IsSubclass(posterior_class, MVNLinearOperator)

\* C16: forward_loss computes the latent loss by the closed-form KL
\* divergence exactly when the prior and the posterior are Gaussians of the
\* same family, and by the Monte-Carlo estimate with the call's sample count
\* in every other case.
LatentLossPath ==
    (vae.active /\ vae.calls > 0) =>
        IF SameFamilyGaussians(vae.prior.class, vae.posterior_fn)
        THEN vae.result.path = "kl"
        ELSE /\ vae.result.path = "mc"
             /\ vae.result.sample_size \in McSamples


\* C19: when the loop of features.train or of a prototype phase has ended,
\* the parameters restored from the latest checkpoint are those of the epoch
\* whose test metric is the best the controller has recorded, also when the
\* run stopped by the epoch cap or its last epoch was no improvement.
RestoredBest ==
    pc = "feat_done" =>
        /\ bestEpoch \in 0..(Len(hist) - 1)
        /\ ckpt.epoch = bestEpoch
        /\ params = hist[bestEpoch + 1].params
        /\ hist[bestEpoch + 1].metric = es.best
        /\ \A i \in (bestEpoch + 2)..Len(hist) :
               ~Improved(es, hist[i].metric)

RestoredBestWitness ==
    /\ pc = "feat_done"
    /\ Len(hist) >= 3
    /\ bestEpoch + 1 < Len(hist)
    /\ bestEpoch >= 1
    /\ es.steps <= cfg.patience

\* C20: features.train runs at most max_epochs epochs and stops no later
\* than epoch index max_epochs - 1, for every metric sequence and every
\* max_epochs given to learn.
FeaturesEpochCap ==
    cfg.caller = "features" =>
        /\ Len(hist) <= cfg.max_epochs
        /\ \A i \in 1..Len(calls) : calls[i] <= cfg.max_epochs - 1


\* number of examples in the first b batches of a pass
RECURSIVE ExamplesIn(_)
ExamplesIn(b) == IF b = 0 THEN 0 ELSE ExamplesIn(b - 1) + BatchSize(b)

\* C22: the metric train passes to the controller at an epoch is the mean
\* test loss of that epoch alone: the accumulators start the test pass at
\* zero, so they hold the sums over the test batches run so far in this epoch
\* and nothing of the train pass or of an earlier epoch, and every metric the
\* controller has recorded is a sum over one test pass divided by its count.
MetricOfTestPassOnly ==
    /\ pc = "test" =>
           /\ loss_denominator = ExamplesIn(batch)
           /\ loss_numerator \in SumsOf(ExamplesIn(batch))
    /\ pc \in {"sample", "check"} =>
           /\ loss_denominator = ExamplesIn(NumBatches)
           /\ loss_numerator \in SumsOf(ExamplesIn(NumBatches))
    /\ (calls # <<>> /\ ~es.inf) =>
           /\ es.best[2] = ExamplesIn(NumBatches)
           /\ es.best[1] \in SumsOf(ExamplesIn(NumBatches))

MetricOfTestPassOnlyWitness ==
    /\ pc = "check"
    /\ epoch >= 1
    /\ ~es.inf
    /\ loss_denominator = ExamplesIn(NumBatches)
    /\ work.grad = (epoch + 1) * NumBatches


\* C23: in walk, for every fitted tree, each axis walk has a defined split
\* feature: the selected features are at least as many as the component
\* pairs, no walk raises, and the components 2i and 2i+1 of a walk are the
\* two leaves under the node that splits on features[i].
AxisWalkFeatureDefined ==
    (walk.active /\ pc # "walk_select") =>
        /\ pc # "failed"
        /\ Len(walk.features) >= NumPairs(walk.components)
        /\ \A k \in 1..Len(walk.axis) :
               LET w == walk.axis[k]
               IN /\ w.comp_a > 1
                  /\ w.comp_b = w.comp_a + 1
                  /\ walk.all_features[w.comp_a - 1] = w.feature


\* variables whose update count a step has changed
Updated == {v \in ModelVars : proto'.updates[v] # proto.updates[v]}

\* C21: the phase determines the objective and the trained variables of a
\* prototype minibatch: a phase-3 training minibatch updates the classifier
\* variables only and its loss has the classification term and the l1 term
\* the objective supplies, without cluster or separation term; a phase-1
\* training minibatch updates the prototype and conv-stack variables; a
\* minibatch with is_train false updates no variable.
PhaseDeterminesTraining ==
    [][(proto.active /\ proto'.calls = proto.calls + 1) =>
        LET l == proto'.last
        IN /\ ~l.is_train => Updated = {}
           /\ (l.is_train /\ l.phase = 3) =>
                  /\ Updated = Range(trainable_classifier_vars)
                  /\ "classification" \in l.loss_terms
                  /\ "l1" \in proto.keys => "l1" \in l.loss_terms
                  /\ l.loss_terms \cap {"cluster", "separation"} = {}
           /\ (l.is_train /\ l.phase = 1) =>
                  /\ Range(trainable_prototype_vars) \subseteq Updated
                  /\ Range(trainable_conv_stack_vars) \subseteq Updated
                  /\ l.loss_terms = {"classification"} \cup proto.keys]_vars

PhaseDeterminesTrainingWitness ==
    /\ proto.active
    /\ proto.last.phase = 3
    /\ proto.last.is_train
    /\ proto.last.epoch >= 1
    /\ proto.keys = ObjectiveTerms
    /\ proto.last.loss_terms = {"classification", "l1"}
    /\ proto.updates["classifier"] >= 2
    /\ proto.updates["prototypes"] >= 1

\* C24: in phase 1 with delay_conv_stack_training set, the conv-stack
\* variables are outside the trained variables in epochs 0 to 4 and inside
\* from epoch 5 on, and each trained variable appears exactly once in the
\* list given to the optimizer.
DelayedConvStack ==
    (proto.active /\ proto.delay_conv_stack_training /\ proto.last.is_train
        /\ proto.last.phase = 1) =>
        /\ \A v \in Range(trainable_conv_stack_vars) :
               (v \in Range(proto.last.train_vars))
                   <=> (proto.last.epoch >= DelayEpochs)
        /\ \A v \in Range(proto.last.train_vars) :
               Occurrences(proto.last.train_vars, v) = 1

====
